---------------------------- MODULE Spec2Model ----------------------------
(***************************************************************************)
(* Interview-brief pipeline: response coercion (prep/llm.py), brief        *)
(* rendering (prep/render.py), the CLI pipeline (cli.py) and the GUI       *)
(* window with its worker thread (gui.py).                                 *)
(*                                                                         *)
(* Text is a sequence of tokens.  A token is one lexical unit of the       *)
(* characters the code's regular expressions and the JSON grammar tell     *)
(* apart: "FENCE" (three backquotes), " " (a run of white space), "{" "}"  *)
(* "[" "]" ":" "," and the double quote, a digit ("0", "1", ...), one of   *)
(* null, true, false, or a word (any other string, e.g. "json", "Sure",   *)
(* "role_summary").                                                        *)
(***************************************************************************)
EXTENDS Integers, Sequences, FiniteSets, TLC

VARIABLES
    segs,       \* coercion: the parts the reply under test is made of
    raw,        \* coercion: the model's reply as collected by call_openai
    cpc,        \* coercion: position in call_openai's parse step
    cleaned,    \* coercion: the span extract_json_block chose
    cres,       \* coercion: what call_openai returned or that it raised
    data,       \* rendering: the argument of render_markdown
    rpc,        \* rendering: "start" or "done"
    rout,       \* rendering: the document returned or that it raised
    mode,       \* programs: "cli" (cli.py), "gui" (gui.py) or "idle"
    cli,        \* cli.py: one run of generate_prep_brief
    gui,        \* gui.py: the MainWindow's widgets and open dialogs
    workers,    \* gui.py: the PrepWorker threads, by slot
    sigq,       \* gui.py: signals emitted by workers, queued for the window
    files       \* the output files <base>.json and <base>.md on disk

cvars == <<segs, raw, cpc, cleaned, cres>>
rvars == <<data, rpc, rout>>
pvars == <<mode, cli, gui, workers, sigq, files>>
vars == <<segs, raw, cpc, cleaned, cres, data, rpc, rout,
          mode, cli, gui, workers, sigq, files>>

---------------------------------------------------------------------------
(* Tokens *)

F == "FENCE"
WS == " "
Q == "\""

Digits == {"0", "1", "2", "4"}
Literals == {"null", "true", "false"}

IsJsonLabel(tok) == tok \in {"json", "JSON", "Json"}

---------------------------------------------------------------------------
(* Python values, as json.loads builds them.  One record shape for every    *)
(* kind: k is the kind, s the characters of a string / number / literal,   *)
(* keys and items the keys and values of a dict (insertion order), items   *)
(* the elements of a list.                                                 *)

VStr(s) == [k |-> "str", s |-> s, keys |-> <<>>, items |-> <<>>]
VNum(s) == [k |-> "num", s |-> s, keys |-> <<>>, items |-> <<>>]
VLit(tok) == [k |-> tok, s |-> <<tok>>, keys |-> <<>>, items |-> <<>>]
VArr(items) == [k |-> "arr", s |-> <<>>, keys |-> <<>>, items |-> items]
VObj(keys, items) == [k |-> "obj", s |-> <<>>, keys |-> keys, items |-> items]
NoValue == [k |-> "none", s |-> <<>>, keys |-> <<>>, items |-> <<>>]

IsDict(v) == v.k = "obj"

KeyIndex(keys, key) ==
    IF \E i \in 1..Len(keys) : keys[i] = key
    THEN CHOOSE i \in 1..Len(keys) : keys[i] = key
    ELSE 0

\* d[key] = v on a dict under construction: a repeated key keeps its place
\* and takes the last value.
DictPut(keys, items, key, v) ==
    LET i == KeyIndex(keys, key)
    IN  IF i = 0
        THEN [keys |-> Append(keys, key), items |-> Append(items, v)]
        ELSE [keys |-> keys, items |-> [items EXCEPT ![i] = v]]

---------------------------------------------------------------------------
(* str.strip() *)

FirstNonWs(s) ==
    IF \E i \in 1..Len(s) : s[i] # WS
    THEN CHOOSE i \in 1..Len(s) : s[i] # WS /\ \A j \in 1..(i-1) : s[j] = WS
    ELSE Len(s) + 1

LastNonWs(s) ==
    IF \E i \in 1..Len(s) : s[i] # WS
    THEN CHOOSE i \in 1..Len(s) : s[i] # WS /\ \A j \in (i+1)..Len(s) : s[j] = WS
    ELSE 0

Strip(s) == SubSeq(s, FirstNonWs(s), LastNonWs(s))

\* The first position at or after i that holds no white space (Len(s)+1 at
\* the end): what \s* consumes in the patterns, and the decoder's skipping.
SkipWs(s, i) ==
    CHOOSE j \in i..(Len(s) + 1) :
        /\ \A m \in i..(j-1) : s[m] = WS
        /\ (j = Len(s) + 1 \/ s[j] # WS)

---------------------------------------------------------------------------
(* json.loads *)

Fail == [ok |-> FALSE, val |-> NoValue, next |-> 0]
Done(v, n) == [ok |-> TRUE, val |-> v, next |-> n]

ParseString(s, i) ==
    IF \E j \in (i+1)..Len(s) : s[j] = Q
    THEN LET j == CHOOSE j \in (i+1)..Len(s) :
                      s[j] = Q /\ \A m \in (i+1)..(j-1) : s[m] # Q
         IN  Done(VStr(SubSeq(s, i+1, j-1)), j+1)
    ELSE Fail

ParseNumber(s, i) ==
    IF s[i] = "0"
    THEN Done(VNum(<<"0">>), i+1)
    ELSE LET j == CHOOSE j \in (i+1)..(Len(s)+1) :
                      /\ \A m \in i..(j-1) : s[m] \in Digits
                      /\ (j = Len(s) + 1 \/ s[j] \notin Digits)
         IN  Done(VNum(SubSeq(s, i, j-1)), j)

RECURSIVE ParseValue(_, _), ParseMembers(_, _, _, _), ParseItems(_, _, _)

ParseValue(s, i) ==
    IF i > Len(s) THEN Fail
    ELSE IF s[i] = Q THEN ParseString(s, i)
    ELSE IF s[i] = "{" THEN
        LET j == SkipWs(s, i+1)
        IN  IF j <= Len(s) /\ s[j] = "}"
            THEN Done(VObj(<<>>, <<>>), j+1)
            ELSE ParseMembers(s, j, <<>>, <<>>)
    ELSE IF s[i] = "[" THEN
        LET j == SkipWs(s, i+1)
        IN  IF j <= Len(s) /\ s[j] = "]"
            THEN Done(VArr(<<>>), j+1)
            ELSE ParseItems(s, j, <<>>)
    ELSE IF s[i] \in Digits THEN ParseNumber(s, i)
    ELSE IF s[i] \in Literals THEN Done(VLit(s[i]), i+1)
    ELSE Fail

\* JSONObject's loop: i is where a property name is expected.
ParseMembers(s, i, keys, items) ==
    IF i > Len(s) \/ s[i] # Q THEN Fail
    ELSE LET key == ParseString(s, i)
         IN  IF ~key.ok THEN Fail
             ELSE LET c == SkipWs(s, key.next)
                  IN  IF c > Len(s) \/ s[c] # ":" THEN Fail
                      ELSE LET v == ParseValue(s, SkipWs(s, c+1))
                           IN  IF ~v.ok THEN Fail
                               ELSE LET e == SkipWs(s, v.next)
                                        d == DictPut(keys, items, key.val.s, v.val)
                                    IN  IF e > Len(s) THEN Fail
                                        ELSE IF s[e] = "}"
                                        THEN Done(VObj(d.keys, d.items), e+1)
                                        ELSE IF s[e] = ","
                                        THEN ParseMembers(s, SkipWs(s, e+1),
                                                          d.keys, d.items)
                                        ELSE Fail

\* JSONArray's loop: i is where an element is expected.
ParseItems(s, i, items) ==
    LET v == ParseValue(s, i)
    IN  IF ~v.ok THEN Fail
        ELSE LET e == SkipWs(s, v.next)
             IN  IF e > Len(s) THEN Fail
                 ELSE IF s[e] = "]" THEN Done(VArr(Append(items, v.val)), e+1)
                 ELSE IF s[e] = "," THEN ParseItems(s, SkipWs(s, e+1),
                                                    Append(items, v.val))
                 ELSE Fail

\* json.loads(s): one value, white space around it, nothing else.
\* ok = FALSE is json.JSONDecodeError.
Loads(s) ==
    LET v == ParseValue(s, SkipWs(s, 1))
    IN  IF v.ok /\ SkipWs(s, v.next) = Len(s) + 1 THEN v ELSE Fail

---------------------------------------------------------------------------
(* extract_json_block *)

NoSpan == [found |-> FALSE, span |-> <<>>]
Span(s) == [found |-> TRUE, span |-> s]

\* The end e of the group (\{.*?\}) that opens at p: the first "}" after p
\* that white space and then a fence follow (0 if there is none).
FenceBodyEnd(text, p) ==
    LET ends == {e \in (p+1)..Len(text) :
                    /\ text[e] = "}"
                    /\ SkipWs(text, e+1) <= Len(text)
                    /\ text[SkipWs(text, e+1)] = F}
    IN  IF ends = {} THEN 0
        ELSE CHOOSE e \in ends : \A e2 \in ends : e <= e2

\* re.search over the fence openers at `starts`, the body expected `skip`
\* tokens further on, after white space: the leftmost opener from which the
\* whole pattern matches.
FenceSearch(text, starts, skip) ==
    LET good == {i \in starts :
                    LET p == SkipWs(text, i + skip)
                    IN  /\ p <= Len(text)
                        /\ text[p] = "{"
                        /\ FenceBodyEnd(text, p) # 0}
    IN  IF good = {} THEN NoSpan
        ELSE LET i == CHOOSE i \in good : \A i2 \in good : i <= i2
                 p == SkipWs(text, i + skip)
             IN  Span(Strip(SubSeq(text, p, FenceBodyEnd(text, p))))

\* re.search(r"```json\s*(\{.*?\})\s*```", text, re.S | re.I)
LabeledFence(text) ==
    FenceSearch(text,
                {i \in 1..(Len(text) - 1) : text[i] = F /\ IsJsonLabel(text[i+1])},
                2)

\* re.search(r"```\s*(\{.*?\})\s*```", text, re.S)
UnlabeledFence(text) ==
    FenceSearch(text, {i \in 1..Len(text) : text[i] = F}, 1)

\* re.search(r"\{[\s\S]*\}\s*$", text): from the first "{" to the last "}",
\* which only white space may follow.
TrailingBraces(text) ==
    LET e == LastNonWs(text)
        opens == {p \in 1..(e-1) : text[p] = "{"}
    IN  IF e = 0 \/ text[e] # "}" \/ opens = {} THEN NoSpan
        ELSE LET p == CHOOSE p \in opens : \A p2 \in opens : p <= p2
             IN  Span(Strip(SubSeq(text, p, Len(text))))

\* The first two patterns tried in the other order.
extract_unlabeled_first(text) ==
    IF UnlabeledFence(text).found THEN UnlabeledFence(text).span
    ELSE IF LabeledFence(text).found THEN LabeledFence(text).span
    ELSE IF TrailingBraces(text).found THEN TrailingBraces(text).span
    ELSE Strip(text)

extract_json_block(text) ==
    IF LabeledFence(text).found THEN LabeledFence(text).span
    ELSE IF UnlabeledFence(text).found THEN UnlabeledFence(text).span
    ELSE IF TrailingBraces(text).found THEN TrailingBraces(text).span
    ELSE Strip(text)

---------------------------------------------------------------------------
(* call_openai, from the collected text on *)

Returned(v) == [st |-> "returned", val |-> v, err |-> ""]
Raised(e) == [st |-> "raised", val |-> NoValue, err |-> e]
NoResult == [st |-> "none", val |-> NoValue, err |-> ""]

\* text = "".join(text_chunks).strip()
CollectedText(reply) == Strip(reply)

\* json.loads(text) and what the caller gets from it.
LoadsResult(s) ==
    IF Loads(s).ok THEN Returned(Loads(s).val) ELSE Raised("JSONDecodeError")

\* The try / except of call_openai: the whole text, else the extracted span.
call_openai_parse(reply) ==
    LET text == CollectedText(reply)
    IN  IF Loads(text).ok THEN Returned(Loads(text).val)
        ELSE LoadsResult(extract_json_block(text))

---------------------------------------------------------------------------
(* json.dumps(value, indent=2): the serialization written to the .json     *)
(* file, and the one a reply that honours the prompt carries in its fence. *)

RECURSIVE Dumps(_), DumpsItems(_, _), DumpsMembers(_, _, _)

Dumps(v) ==
    IF v.k = "str" THEN <<Q>> \o v.s \o <<Q>>
    ELSE IF v.k = "arr" THEN
        IF v.items = <<>> THEN <<"[", "]">>
        ELSE <<"[", WS>> \o DumpsItems(v.items, 1) \o <<WS, "]">>
    ELSE IF v.k = "obj" THEN
        IF v.keys = <<>> THEN <<"{", "}">>
        ELSE <<"{", WS>> \o DumpsMembers(v.keys, v.items, 1) \o <<WS, "}">>
    ELSE v.s

DumpsItems(items, i) ==
    IF i = Len(items) THEN Dumps(items[i])
    ELSE Dumps(items[i]) \o <<",", WS>> \o DumpsItems(items, i+1)

DumpsMembers(keys, items, i) ==
    LET m == <<Q>> \o keys[i] \o <<Q, ":", WS>> \o Dumps(items[i])
    IN  IF i = Len(keys) THEN m
        ELSE m \o <<",", WS>> \o DumpsMembers(keys, items, i+1)

---------------------------------------------------------------------------
(* The replies the coercion is run on: up to MaxSegs parts, each a labeled  *)
(* fence, an unlabeled fence, a bare object or prose; and a serialized     *)
(* record in a labeled fence between two pieces of prose.                  *)

MaxSegs == 3

Str1(w) == VStr(<<w>>)
Obj1(key, v) == VObj(<<<<key>>>>, <<v>>)

\* Objects with no fence inside them.
PlainObjects ==
    << Obj1("a", VNum(<<"1">>)),
       Obj1("b", VStr(<<"}", "{">>)),
       Obj1("c", Obj1("d", VArr(<<VNum(<<"1">>)>>))) >>

\* A body between braces that is no JSON.
BadBody == <<"{", "oops", "}">>

Bodies == [i \in 1..(Len(PlainObjects) + 1) |->
              IF i <= Len(PlainObjects) THEN Dumps(PlainObjects[i]) ELSE BadBody]

Proses ==
    << <<"Sure", "!", WS>>,
       <<WS>>,
       <<"1">>,
       <<"see", "{", "x", "}", WS>> >>

\* BriefRecord-shaped records: recognized keys, string or list-of-string
\* values, some holding braces and fences.
BriefRecords ==
    << VObj(<< <<"role_summary">>, <<"top_required_skills">> >>,
            << VStr(<<"Backend", WS, "role">>),
               VArr(<<Str1("Go"), Str1("Kubernetes")>>) >>),
       Obj1("role_summary", VStr(<<"use", WS, "{", "x", "}">>)),
       Obj1("talking_points", VArr(<<VStr(<<"f", "{", "}", WS, F>>)>>)),
       Obj1("role_summary", VStr(<<F, "json", WS, "{", "}", WS, F>>)),
       Obj1("gaps_and_risks", VArr(<<VStr(<<"a", F, "b">>)>>)) >>

RecordProses == << <<>>, <<"Sure", "!", WS>>, <<WS, "Hope", WS, "{", "it", "}", WS, "helps">> >>

Seg(kind, n) == [kind |-> kind, n |-> n]

Segments ==
    {Seg(kd, n) : kd \in {"labeled", "unlabeled", "bare"}, n \in 1..Len(Bodies)}
    \cup {Seg("prose", n) : n \in 1..Len(Proses)}

SegTokens(g) ==
    CASE g.kind = "labeled" -> <<F, "json", WS>> \o Bodies[g.n] \o <<WS, F>>
      [] g.kind = "unlabeled" -> <<F>> \o Bodies[g.n] \o <<F, WS>>
      [] g.kind = "bare" -> Bodies[g.n]
      [] g.kind = "prose" -> Proses[g.n]
      [] g.kind = "before" -> RecordProses[g.n]
      [] g.kind = "record" -> <<F, "json", WS>> \o Dumps(BriefRecords[g.n]) \o <<WS, F>>
      [] g.kind = "after" -> RecordProses[g.n]

RECURSIVE Flatten(_)
Flatten(ss) == IF ss = <<>> THEN <<>> ELSE SegTokens(Head(ss)) \o Flatten(Tail(ss))

EmbeddedRecords ==
    { <<Seg("before", b), Seg("record", r), Seg("after", a)>> :
        b \in 1..Len(RecordProses), r \in 1..Len(BriefRecords),
        a \in 1..Len(RecordProses) }

CoerceIdle ==
    /\ segs = <<>>
    /\ raw = <<>>
    /\ cpc = "idle"
    /\ cleaned = <<>>
    /\ cres = NoResult

InitCoerce ==
    /\ \/ \E m \in 0..MaxSegs : segs \in [1..m -> Segments]
       \/ segs \in EmbeddedRecords
    /\ raw = Flatten(segs)
    /\ cpc = "start"
    /\ cleaned = <<>>
    /\ cres = NoResult

\* try: return json.loads(text)
ParseWhole ==
    /\ cpc = "start"
    /\ IF Loads(CollectedText(raw)).ok
       THEN cpc' = "done" /\ cres' = Returned(Loads(CollectedText(raw)).val)
       ELSE cpc' = "extract" /\ cres' = cres
    /\ UNCHANGED <<segs, raw, cleaned, rvars, pvars>>

\* except json.JSONDecodeError: cleaned = extract_json_block(text)
ExtractBlock ==
    /\ cpc = "extract"
    /\ cleaned' = extract_json_block(CollectedText(raw))
    /\ cpc' = "parse"
    /\ UNCHANGED <<segs, raw, cres, rvars, pvars>>

\* return json.loads(cleaned)
ParseCleaned ==
    /\ cpc = "parse"
    /\ cres' = LoadsResult(cleaned)
    /\ cpc' = "done"
    /\ UNCHANGED <<segs, raw, cleaned, rvars, pvars>>

---------------------------------------------------------------------------
(* render_markdown *)

\* bool(v)
Truthy(v) ==
    CASE v.k = "str" -> v.s # <<>>
      [] v.k = "num" -> \E i \in 1..Len(v.s) : v.s[i] # "0"
      [] v.k = "true" -> TRUE
      [] v.k = "arr" -> v.items # <<>>
      [] v.k = "obj" -> v.keys # <<>>
      [] OTHER -> FALSE

\* repr(v) and str(v), as an f-string formats a value.
RECURSIVE PyRepr(_), ReprItems(_, _), ReprMembers(_, _, _)

PyRepr(v) ==
    CASE v.k = "str" -> <<"'">> \o v.s \o <<"'">>
      [] v.k = "num" -> v.s
      [] v.k = "null" -> <<"None">>
      [] v.k = "true" -> <<"True">>
      [] v.k = "false" -> <<"False">>
      [] v.k = "arr" -> <<"[">> \o ReprItems(v.items, 1) \o <<"]">>
      [] v.k = "obj" -> <<"{">> \o ReprMembers(v.keys, v.items, 1) \o <<"}">>

ReprItems(items, i) ==
    IF i > Len(items) THEN <<>>
    ELSE IF i = Len(items) THEN PyRepr(items[i])
    ELSE PyRepr(items[i]) \o <<",", WS>> \o ReprItems(items, i+1)

ReprMembers(keys, items, i) ==
    IF i > Len(keys) THEN <<>>
    ELSE LET m == <<"'">> \o keys[i] \o <<"'", ":", WS>> \o PyRepr(items[i])
         IN  IF i = Len(keys) THEN m
             ELSE m \o <<",", WS>> \o ReprMembers(keys, items, i+1)

PyStr(v) == IF v.k = "str" THEN v.s ELSE PyRepr(v)

\* data.get(key): the value, or None.
DictGet(d, key) ==
    IF KeyIndex(d.keys, <<key>>) = 0 THEN VLit("null")
    ELSE d.items[KeyIndex(d.keys, <<key>>)]

HasKey(d, key) == KeyIndex(d.keys, <<key>>) # 0

\* A document is a sequence of lines, a line a sequence of tokens.  A piece
\* appended to md is the lines it holds; "\n".join(md) puts them one after
\* the other.
Title == <<"#", WS, "Interview Prep Brief">>
Heading(title) == <<"##", WS, title>>
Bullet(x) == <<"-", WS>> \o PyStr(x)

\* The (section, title) list of the loop, in its order.
Sections ==
    << <<"top_required_skills", "Top Required Skills">>,
       <<"strong_overlaps", "Strong Overlaps (CV -> JD)">>,
       <<"gaps_and_risks", "Gaps & Risks">>,
       <<"likely_tech_questions", "Likely Technical Questions">>,
       <<"behavioral_questions", "Behavioral Questions">>,
       <<"talking_points", "High-Impact Talking Points">>,
       <<"quick_upskilling_plan", "Quick Upskilling Plan (<=2h Tasks)">> >>

\* for x in items: the elements of a list, the keys of a dict; a number or
\* a boolean is not iterable (TypeError).
Iterable(v) == v.k \in {"arr", "obj"}
IterItems(v) == IF v.k = "obj" THEN [i \in 1..Len(v.keys) |-> VStr(v.keys[i])]
                ELSE v.items

\* bullets(key): items = data.get(key) or []; a str is one item.
BulletItems(d, key) ==
    LET got == DictGet(d, key)
        items == IF Truthy(got) THEN got ELSE VArr(<<>>)
    IN  IF items.k = "str" THEN VArr(<<items>>) ELSE items

BulletsRaises(d, key) == ~Iterable(BulletItems(d, key))

BulletLines(d, key) ==
    LET xs == IterItems(BulletItems(d, key))
    IN  IF xs = <<>> THEN << <<>> >> ELSE [i \in 1..Len(xs) |-> Bullet(xs[i])]

\* The role_summary block: emitted when the key is in data, whatever its
\* value; "\n".join(rs) raises TypeError on an element that is no str.
RoleSummaryRaises(d) ==
    /\ HasKey(d, "role_summary")
    /\ DictGet(d, "role_summary").k = "arr"
    /\ \E i \in 1..Len(DictGet(d, "role_summary").items) :
           DictGet(d, "role_summary").items[i].k # "str"

RoleSummaryLines(d) ==
    IF ~HasKey(d, "role_summary") THEN <<>>
    ELSE LET rs == DictGet(d, "role_summary")
             body == IF rs.k = "arr"
                     THEN IF rs.items = <<>> THEN << <<>> >>
                          ELSE [i \in 1..Len(rs.items) |-> rs.items[i].s]
                     ELSE << PyStr(rs) >>
         IN  << Heading("Role Summary"), <<>> >> \o body \o << <<>> >>

RECURSIVE SectionLines(_, _)
SectionLines(d, i) ==
    IF i > Len(Sections) THEN <<>>
    ELSE (IF Truthy(DictGet(d, Sections[i][1]))
          THEN << Heading(Sections[i][2]), <<>> >>
               \o BulletLines(d, Sections[i][1]) \o << <<>> >>
          ELSE <<>>)
         \o SectionLines(d, i+1)

SectionRaises(d) ==
    \E i \in 1..Len(Sections) :
        Truthy(DictGet(d, Sections[i][1])) /\ BulletsRaises(d, Sections[i][1])

IsBlank(line) == \A i \in 1..Len(line) : line[i] = WS

\* text.strip() + "\n" on the joined lines (the first line is the title).
RECURSIVE StripDoc(_)
StripDoc(lines) ==
    IF lines = <<>> THEN << <<>> >>
    ELSE IF IsBlank(lines[Len(lines)]) THEN StripDoc(SubSeq(lines, 1, Len(lines) - 1))
    ELSE SubSeq(lines, 1, Len(lines) - 1)
         \o << SubSeq(lines[Len(lines)], 1, LastNonWs(lines[Len(lines)])) >>
         \o << <<>> >>

RenderOk(doc) == [st |-> "returned", doc |-> doc, err |-> ""]
RenderRaised(e) == [st |-> "raised", doc |-> <<>>, err |-> e]
NoDoc == [st |-> "none", doc |-> <<>>, err |-> ""]

\* `"role_summary" in data` on an argument that is no dict: a substring
\* test on a str, a membership test on a list.
NonDictHolds(d) ==
    \/ d.k = "str" /\ \E i \in 1..Len(d.s) : d.s[i] = "role_summary"
    \/ d.k = "arr" /\ \E i \in 1..Len(d.items) : d.items[i] = VStr(<<"role_summary">>)

\* What an argument that is no dict raises: TypeError at the `in` test
\* (a number, a boolean, None) or at data["role_summary"], AttributeError
\* at data.get.
NonDictError(d) ==
    IF d.k \in {"str", "arr"} /\ ~NonDictHolds(d) THEN "AttributeError"
    ELSE "TypeError"

\* render_markdown(data)
render_markdown(d) ==
    IF ~IsDict(d) THEN RenderRaised(NonDictError(d))
    ELSE IF RoleSummaryRaises(d) \/ SectionRaises(d) THEN RenderRaised("TypeError")
    ELSE RenderOk(StripDoc(<< Title, <<>> >> \o RoleSummaryLines(d)
                           \o SectionLines(d, 1)))

HasHeading(doc, title) == \E i \in 1..Len(doc) : doc[i] = Heading(title)

---------------------------------------------------------------------------
(* The records render_markdown is run on: up to MaxKeys of the recognized   *)
(* keys and one extra key, each with a value of any JSON kind.             *)

MaxKeys == 2

RenderKeys ==
    << "role_summary", "top_required_skills", "strong_overlaps",
       "gaps_and_risks", "likely_tech_questions", "behavioral_questions",
       "talking_points", "quick_upskilling_plan", "notes" >>

RenderValues ==
    { VStr(<<>>), VStr(<<"Backend", WS, "role">>),
      VArr(<<>>), VArr(<<Str1("Go"), Str1("Kubernetes")>>),
      VArr(<<VNum(<<"1">>)>>),
      VNum(<<"1", "0">>), VNum(<<"0">>),
      VLit("true"), VLit("null"),
      Obj1("k", Str1("v")) }

\* The dict with the keys at the positions in K (in RenderKeys' order) and
\* the values f gives them.
RECURSIVE DictOf(_, _, _)
DictOf(K, f, i) ==
    IF i > Len(RenderKeys) THEN VObj(<<>>, <<>>)
    ELSE LET rest == DictOf(K, f, i+1)
         IN  IF i \in K
             THEN VObj(<< <<RenderKeys[i]>> >> \o rest.keys, <<f[i]>> \o rest.items)
             ELSE rest

RenderIdle ==
    /\ data = NoValue
    /\ rpc = "idle"
    /\ rout = NoDoc

InitRender ==
    /\ \E K \in SUBSET (1..Len(RenderKeys)) :
          /\ Cardinality(K) <= MaxKeys
          /\ \E f \in [K -> RenderValues] : data = DictOf(K, f, 1)
    /\ rpc = "start"
    /\ rout = NoDoc

Render ==
    /\ rpc = "start"
    /\ rout' = render_markdown(data)
    /\ rpc' = "done"
    /\ UNCHANGED <<data, cvars, pvars>>

---------------------------------------------------------------------------
(* JD and CV texts.  Only their lengths matter to the programs: a text is  *)
(* `lead` white-space characters, `body` characters that begin and end     *)
(* with a non-space, and `trail` white-space characters.  NoText is None.  *)

T(lead, body, trail) ==
    [some |-> TRUE, lead |-> lead, body |-> body, trail |-> trail]
NoText == [some |-> FALSE, lead |-> 0, body |-> 0, trail |-> 0]

\* len(text)
TLen(t) == t.lead + t.body + t.trail

\* text.strip()
TStrip(t) == IF t.body = 0 THEN T(0, 0, 0) ELSE T(0, t.body, 0)

\* not text
Falsy(t) == ~t.some \/ TLen(t) = 0

\* text or None
OrNone(t) == IF Falsy(t) THEN NoText ELSE t

\* The threshold of generate_prep_brief's two length checks.
MinLength == 100

\* The length under which fetch_jd_text falls back to the whole page.
PageMinLength == 200

---------------------------------------------------------------------------
(* prep/core.py *)

Fetched(t) == [ok |-> TRUE, text |-> t, err |-> ""]
FetchRaised(e) == [ok |-> FALSE, text |-> NoText, err |-> e]

\* A page: whether the request succeeds, the text of its <main> or
\* <article> (None without one), of the page without navigation, scripts
\* and the like, and of the page without scripts and styles only.
Page(main, pruned, whole) ==
    [ok |-> TRUE, main |-> main, pruned |-> pruned, whole |-> whole]
PageError == [ok |-> FALSE, main |-> NoText, pruned |-> NoText, whole |-> NoText]

PageText(page) ==
    LET text == TStrip(IF page.main.some THEN page.main ELSE page.pruned)
    IN  IF Falsy(text) \/ TLen(text) < PageMinLength
        THEN TStrip(page.whole)
        ELSE text

\* fetch_jd_text(url, fallback_text): url is whether a URL is given.
fetch_jd_text(url, fallback_text, page) ==
    IF ~Falsy(fallback_text) /\ ~Falsy(TStrip(fallback_text))
    THEN Fetched(TStrip(fallback_text))
    ELSE IF ~url THEN FetchRaised("ValueError")
    ELSE IF ~page.ok THEN FetchRaised("RequestException")
    ELSE Fetched(PageText(page))

\* A CV file: whether it exists, whether it is a PDF, the text in it.
CvFile(exists, pdf, text) == [exists |-> exists, pdf |-> pdf, text |-> text]

read_cv_text(file) ==
    IF ~file.exists THEN FetchRaised("FileNotFoundError")
    ELSE IF file.pdf /\ Falsy(TStrip(file.text)) THEN FetchRaised("ValueError")
    ELSE Fetched(TStrip(file.text))

NoPrompt == [built |-> FALSE, jd |-> NoText, cv |-> NoText]

\* build_prompt(jd_text, cv_text): the fixed template around the two texts.
build_prompt(jd_text, cv_text) == [built |-> TRUE, jd |-> jd_text, cv |-> cv_text]

---------------------------------------------------------------------------
(* The call of call_openai: its parameters and the two call sites *)

CallOpenaiParams == <<"prompt", "model">>

\* call_openai(system_prompt, user_propmt, model=model)
CliCall == [positional |-> 2, keywords |-> {"model"}]

\* call_openai(prompt, model=self.model)
GuiCall == [positional |-> 1, keywords |-> {"model"}]

\* Python's argument binding: no more positional arguments than parameters,
\* every keyword a parameter no positional argument has filled, and the
\* parameter without a default (prompt) given.  Otherwise TypeError.
Binds(call) ==
    /\ call.positional <= Len(CallOpenaiParams)
    /\ \A kw \in call.keywords :
          \E i \in (call.positional + 1)..Len(CallOpenaiParams) :
              CallOpenaiParams[i] = kw
    /\ (call.positional >= 1 \/ "prompt" \in call.keywords)

\* What the model service does with a request: an error, or a reply.
ApiError == [ok |-> FALSE, reply |-> <<>>]
ApiReply(reply) == [ok |-> TRUE, reply |-> reply]

ReplyScenario ==
    <<"Sure", "!", WS, F, "json", WS,
      "{", Q, "role_summary", Q, ":", WS,
           Q, "Backend", WS, "role", WS, "focused", WS, "on", WS,
              "distributed", WS, "systems.", Q, ",", WS,
           Q, "top_required_skills", Q, ":", WS,
           "[", Q, "Go", Q, ",", WS, Q, "Kubernetes", Q, "]", "}",
      WS, F>>

ScenarioRecord ==
    VObj(<< <<"role_summary">>, <<"top_required_skills">> >>,
         << VStr(<<"Backend", WS, "role", WS, "focused", WS, "on", WS,
                   "distributed", WS, "systems.">>),
            VArr(<<Str1("Go"), Str1("Kubernetes")>>) >>)

ModelReplies ==
    { ReplyScenario,
      <<"I", WS, "cannot", WS, "comply.">>,
      <<"4", "2">>,
      <<Q, "x", Q>>,
      <<"[", "1", "]">>,
      Dumps(Obj1("top_required_skills", VNum(<<"4">>))),
      Dumps(Obj1("strong_overlaps", VArr(<<Str1("Go")>>))) }

ApiOutcomes == {ApiError} \cup {ApiReply(r) : r \in ModelReplies}

\* call_openai(...) once its arguments are bound.
call_openai(outcome) ==
    IF ~outcome.ok THEN Raised("APIError") ELSE call_openai_parse(outcome.reply)

\* The eight keys of the record, as on_done lists them.
RequiredKeys ==
    { "role_summary", "top_required_skills", "strong_overlaps",
      "gaps_and_risks", "likely_tech_questions", "behavioral_questions",
      "talking_points", "quick_upskilling_plan" }

\* required - set(result_json)
MissingKeys(result) == {key \in RequiredKeys : ~HasKey(result, key)}

---------------------------------------------------------------------------
(* The environment of a run *)

JdTexts ==
    { NoText, T(0, 0, 0), T(100, 0, 0), T(0, 10, 0), T(1, 99, 0),
      T(0, 100, 0), T(2, 500, 2), T(0, 500, 0) }

Pages ==
    { PageError,
      Page(T(1, 250, 1), T(0, 400, 0), T(0, 600, 0)),
      Page(T(0, 50, 0), T(0, 400, 0), T(1, 150, 1)),
      Page(NoText, T(0, 20, 0), T(0, 40, 0)) }

CvFiles ==
    { CvFile(FALSE, FALSE, NoText),
      CvFile(TRUE, TRUE, T(0, 0, 0)),
      CvFile(TRUE, TRUE, T(0, 800, 0)),
      CvFile(TRUE, FALSE, T(0, 20, 1)),
      CvFile(TRUE, FALSE, T(1, 800, 1)) }

\* What the user may have typed in the JD text box.
BoxTexts == { T(0, 0, 0), T(2, 0, 0), T(0, 10, 0), T(1, 500, 1) }

NoFiles == [json |-> FALSE, md |-> FALSE]

---------------------------------------------------------------------------
(* cli.py: generate_prep_brief, and main's try / except around it *)

CliRun(url, text, page, cvfile, stub) ==
    [ pc |-> "start", outcome |-> "running", err |-> "",
      jd_url |-> url, jd_text |-> text, page |-> page, cvfile |-> cvfile,
      stub |-> stub, cv_text |-> NoText, prompt |-> NoPrompt,
      response |-> NoResult, markdown |-> NoDoc,
      wroteJson |-> FALSE, wroteMd |-> FALSE, returned |-> {}, reported |-> {} ]

CliIdle == CliRun(FALSE, NoText, PageError, CvFile(FALSE, FALSE, NoText), ApiError)

CliRaise(c, e) == [c EXCEPT !.pc = "finished", !.outcome = "raised", !.err = e]

\* Lines 61-67: the JD.
CliLoadJd ==
    /\ mode = "cli"
    /\ cli.pc = "start"
    /\ IF ~cli.jd_url /\ Falsy(cli.jd_text)
       THEN cli' = CliRaise(cli, "ValueError")
       ELSE LET got == IF cli.jd_url
                       THEN fetch_jd_text(cli.jd_url, OrNone(cli.jd_text), cli.page)
                       ELSE Fetched(cli.jd_text)
            IN  IF ~got.ok THEN cli' = CliRaise(cli, got.err)
                ELSE IF Falsy(got.text) \/ TLen(got.text) < MinLength
                THEN cli' = CliRaise(cli, "ValueError")
                ELSE cli' = [cli EXCEPT !.pc = "jd_ok", !.jd_text = got.text]
    /\ UNCHANGED <<cvars, rvars, mode, gui, workers, sigq, files>>

\* Lines 69-71: the CV.
CliLoadCv ==
    /\ mode = "cli"
    /\ cli.pc = "jd_ok"
    /\ LET got == read_cv_text(cli.cvfile)
       IN  IF ~got.ok THEN cli' = CliRaise(cli, got.err)
           ELSE IF Falsy(got.text) \/ TLen(got.text) < MinLength
           THEN cli' = CliRaise(cli, "ValueError")
           ELSE cli' = [cli EXCEPT !.pc = "cv_ok", !.cv_text = got.text]
    /\ UNCHANGED <<cvars, rvars, mode, gui, workers, sigq, files>>

\* Lines 73-77: the prompt.
CliBuildPrompt ==
    /\ mode = "cli"
    /\ cli.pc = "cv_ok"
    /\ cli' = [cli EXCEPT !.pc = "prompted",
                          !.prompt = build_prompt(cli.jd_text, cli.cv_text)]
    /\ UNCHANGED <<cvars, rvars, mode, gui, workers, sigq, files>>

\* Lines 79-99: the call, the isinstance check, the rendering, the two
\* files, the returned dict.  The call binds two positional arguments and
\* the keyword model to call_openai(prompt, model): TypeError.
CliCallToReturn ==
    /\ mode = "cli"
    /\ cli.pc = "prompted"
    /\ IF ~Binds(CliCall)
       THEN cli' = CliRaise(cli, "TypeError") /\ files' = files
       ELSE LET response == call_openai(cli.stub)
                markdown == render_markdown(response.val)
            IN  IF response.st = "raised"
                THEN cli' = CliRaise(cli, response.err) /\ files' = files
                ELSE IF ~IsDict(response.val)
                THEN /\ cli' = CliRaise([cli EXCEPT !.response = response], "ValueError")
                     /\ files' = files
                ELSE IF markdown.st = "raised"
                THEN /\ cli' = CliRaise([cli EXCEPT !.response = response], markdown.err)
                     /\ files' = files
                ELSE \E jsonOk \in BOOLEAN, mdOk \in BOOLEAN :
                        LET c == [cli EXCEPT !.response = response,
                                             !.markdown = markdown,
                                             !.wroteJson = jsonOk,
                                             !.wroteMd = jsonOk /\ mdOk]
                        IN  /\ files' = [json |-> files.json \/ jsonOk,
                                         md |-> files.md \/ (jsonOk /\ mdOk)]
                            /\ cli' = IF jsonOk /\ mdOk
                                      THEN [c EXCEPT !.pc = "finished",
                                                     !.outcome = "returned",
                                                     !.returned = {"json_path",
                                                                   "markdown_path",
                                                                   "markdown"}]
                                      ELSE CliRaise(c, "OSError")
    /\ UNCHANGED <<cvars, rvars, mode, gui, workers, sigq>>

---------------------------------------------------------------------------
(* gui.py: PrepWorker *)

MaxWorkers == 2

NoWorker ==
    [ pc |-> "none", jd_url |-> FALSE, jd_text |-> NoText, cv_path |-> FALSE,
      prompt |-> NoPrompt, result |-> NoResult, md |-> NoDoc,
      wroteJson |-> FALSE, wroteMd |-> FALSE, emitted |-> 0, answered |-> 0 ]

\* PrepWorker(url, jdt, cvp, model, out_base), then start().
PrepWorker(url, jdt, cvp) ==
    [NoWorker EXCEPT !.pc = "start", !.jd_url = url,
                     !.jd_text = TStrip(jdt), !.cv_path = cvp]

Signal(kind, w, result, md) == [kind |-> kind, w |-> w, result |-> result, md |-> md]

\* run() is over: its local variables are gone, the object's attributes stay.
Finished(wk) ==
    [wk EXCEPT !.pc = "finished", !.prompt = NoPrompt, !.result = NoResult,
               !.md = NoDoc, !.emitted = @ + 1]

\* except Exception as e: self.failed.emit(...)
WFail(w, wk) ==
    /\ workers' = [workers EXCEPT ![w] = Finished(wk)]
    /\ sigq' = Append(sigq, Signal("failed", w, NoValue, <<>>))

\* Lines 233-237: the CV path, the JD, the CV, the prompt.
WPrepare(w) ==
    /\ mode = "gui"
    /\ workers[w].pc = "start"
    /\ \E page \in Pages, cvfile \in CvFiles :
          LET wk == workers[w]
              jd == fetch_jd_text(wk.jd_url, OrNone(wk.jd_text), page)
              cv == read_cv_text(cvfile)
          IN  IF ~wk.cv_path \/ ~jd.ok \/ ~cv.ok
              THEN WFail(w, wk)
              ELSE /\ workers' = [workers EXCEPT ![w] =
                          [wk EXCEPT !.pc = "prompted",
                                     !.prompt = build_prompt(jd.text, cv.text)]]
                   /\ sigq' = sigq
    /\ UNCHANGED <<cvars, rvars, mode, cli, gui, files>>

\* Line 238: result = call_openai(prompt, model=self.model)
WCallOpenai(w) ==
    /\ mode = "gui"
    /\ workers[w].pc = "prompted"
    /\ \E outcome \in ApiOutcomes :
          LET wk == workers[w]
              result == IF Binds(GuiCall) THEN call_openai(outcome)
                        ELSE Raised("TypeError")
          IN  IF result.st = "raised"
              THEN WFail(w, wk)
              ELSE /\ workers' = [workers EXCEPT ![w] =
                          [wk EXCEPT !.pc = "called", !.result = result]]
                   /\ sigq' = sigq
    /\ UNCHANGED <<cvars, rvars, mode, cli, gui, files>>

\* Line 239: md = render_markdown(result)
WRender(w) ==
    /\ mode = "gui"
    /\ workers[w].pc = "called"
    /\ LET wk == workers[w]
           md == render_markdown(wk.result.val)
       IN  IF md.st = "raised"
           THEN WFail(w, wk)
           ELSE /\ workers' = [workers EXCEPT ![w] =
                       [wk EXCEPT !.pc = "rendered", !.md = md]]
                /\ sigq' = sigq
    /\ UNCHANGED <<cvars, rvars, mode, cli, gui, files>>

\* Lines 242-246: the directory, the two paths, the .json file.
WWriteJson(w) ==
    /\ mode = "gui"
    /\ workers[w].pc = "rendered"
    /\ \E ok \in BOOLEAN :
          IF ok
          THEN /\ workers' = [workers EXCEPT ![w].pc = "json_written",
                                             ![w].wroteJson = TRUE]
               /\ files' = [files EXCEPT !.json = TRUE]
               /\ sigq' = sigq
          ELSE WFail(w, workers[w]) /\ files' = files
    /\ UNCHANGED <<cvars, rvars, mode, cli, gui>>

\* Line 247: the .md file.
WWriteMd(w) ==
    /\ mode = "gui"
    /\ workers[w].pc = "json_written"
    /\ \E ok \in BOOLEAN :
          IF ok
          THEN /\ workers' = [workers EXCEPT ![w].pc = "md_written",
                                             ![w].wroteMd = TRUE]
               /\ files' = [files EXCEPT !.md = TRUE]
               /\ sigq' = sigq
          ELSE WFail(w, workers[w]) /\ files' = files
    /\ UNCHANGED <<cvars, rvars, mode, cli, gui>>

\* Line 249: self.done.emit(result, md, str(self.out_base))
WEmitDone(w) ==
    /\ mode = "gui"
    /\ workers[w].pc = "md_written"
    /\ workers' = [workers EXCEPT ![w] = Finished(workers[w])]
    /\ sigq' = Append(sigq, Signal("done", w, workers[w].result.val,
                                   workers[w].md.doc))
    /\ UNCHANGED <<cvars, rvars, mode, cli, gui, files>>

WorkerStep(w) ==
    \/ WPrepare(w)
    \/ WCallOpenai(w)
    \/ WRender(w)
    \/ WWriteJson(w)
    \/ WWriteMd(w)
    \/ WEmitDone(w)

---------------------------------------------------------------------------
(* gui.py: MainWindow *)

GuiStart ==
    [ btnEnabled |-> TRUE, progress |-> FALSE, status |-> "Ready.",
      preview |-> <<>>, dialogs |-> <<>>, worker |-> 0 ]

InFlight(wk) == wk.pc \notin {"none", "finished"}

\* A slot whose thread is over and answered can hold the next worker.
FreeSlot(w) ==
    \/ workers[w].pc = "none"
    \/ workers[w].pc = "finished" /\ workers[w].answered = workers[w].emitted

\* The UI state without the setEnabled(False).
RunPrepUiState_ButtonLeftEnabled(g) ==
    [g EXCEPT !.progress = TRUE, !.status = "Running"]

\* run_prep's "UI state" lines 177-179.
RunPrepUiState(g) ==
    [g EXCEPT !.btnEnabled = FALSE, !.progress = TRUE, !.status = "Running"]

\* run_prep: a click on Generate, with what the fields hold.  A disabled
\* button emits no click, and an open dialog is modal.
RunPrep ==
    /\ mode = "gui"
    /\ gui.btnEnabled
    /\ gui.dialogs = <<>>
    /\ \E url \in BOOLEAN, box \in BoxTexts, cvp \in BOOLEAN :
          LET jdt == TStrip(box)
          IN  IF (~url /\ Falsy(jdt)) \/ (url /\ ~Falsy(jdt)) \/ ~cvp
              THEN /\ gui' = [gui EXCEPT !.dialogs = Append(@, "warning")]
                   /\ workers' = workers
              ELSE /\ \E w \in 1..MaxWorkers : FreeSlot(w)
                   /\ LET w == CHOOSE w \in 1..MaxWorkers :
                                  FreeSlot(w) /\ \A u \in 1..(w-1) : ~FreeSlot(u)
                      IN  /\ gui' = [RunPrepUiState(gui) EXCEPT !.worker = w]
                          /\ workers' = [workers EXCEPT ![w] =
                                             PrepWorker(url, jdt, cvp)]
    /\ UNCHANGED <<cvars, rvars, mode, cli, sigq, files>>

\* on_done, run by the window's event loop for a queued done signal.
OnDone ==
    /\ mode = "gui"
    /\ sigq # <<>>
    /\ Head(sigq).kind = "done"
    /\ LET sig == Head(sigq)
       IN  /\ gui' = [gui EXCEPT !.progress = FALSE, !.btnEnabled = TRUE,
                                 !.preview = sig.md, !.status = "Done",
                                 !.dialogs = IF MissingKeys(sig.result) # {}
                                             THEN Append(@, "information")
                                             ELSE @]
           /\ workers' = [workers EXCEPT ![sig.w].answered = @ + 1]
    /\ sigq' = Tail(sigq)
    /\ UNCHANGED <<cvars, rvars, mode, cli, files>>

\* on_failed, run by the window's event loop for a queued failed signal.
OnFailed ==
    /\ mode = "gui"
    /\ sigq # <<>>
    /\ Head(sigq).kind = "failed"
    /\ gui' = [gui EXCEPT !.progress = FALSE, !.btnEnabled = TRUE,
                          !.status = "Failed.",
                          !.dialogs = Append(@, "critical")]
    /\ workers' = [workers EXCEPT ![Head(sigq).w].answered = @ + 1]
    /\ sigq' = Tail(sigq)
    /\ UNCHANGED <<cvars, rvars, mode, cli, files>>

\* The user closes the message box on top.
DismissDialog ==
    /\ mode = "gui"
    /\ gui.dialogs # <<>>
    /\ gui' = [gui EXCEPT !.dialogs = SubSeq(@, 1, Len(@) - 1)]
    /\ UNCHANGED <<cvars, rvars, mode, cli, workers, sigq, files>>

---------------------------------------------------------------------------
(* The two programs *)

ProgramsIdle ==
    /\ mode = "idle"
    /\ cli = CliIdle
    /\ gui = GuiStart
    /\ workers = [w \in 1..MaxWorkers |-> NoWorker]
    /\ sigq = <<>>
    /\ files = NoFiles

InitCli ==
    /\ mode = "cli"
    /\ cli \in {CliRun(url, text, page, cvfile, stub) :
                   url \in BOOLEAN, text \in JdTexts, page \in Pages,
                   cvfile \in CvFiles, stub \in ApiOutcomes}
    /\ gui = GuiStart
    /\ workers = [w \in 1..MaxWorkers |-> NoWorker]
    /\ sigq = <<>>
    /\ files = NoFiles

InitGui ==
    /\ mode = "gui"
    /\ cli = CliIdle
    /\ gui = GuiStart
    /\ workers = [w \in 1..MaxWorkers |-> NoWorker]
    /\ sigq = <<>>
    /\ files = NoFiles

---------------------------------------------------------------------------
(* Specifications *)

SpecCoerceInit == InitCoerce /\ RenderIdle /\ ProgramsIdle
SpecCoerceNext == ParseWhole \/ ExtractBlock \/ ParseCleaned
SpecCoerce == SpecCoerceInit /\ [][SpecCoerceNext]_vars

SpecRenderInit == InitRender /\ CoerceIdle /\ ProgramsIdle
SpecRenderNext == Render
SpecRender == SpecRenderInit /\ [][SpecRenderNext]_vars

Init == (InitCli \/ InitGui) /\ CoerceIdle /\ RenderIdle
Worker == \E w \in 1..MaxWorkers : WorkerStep(w)
Next ==
    \/ CliLoadJd \/ CliLoadCv \/ CliBuildPrompt \/ CliCallToReturn
    \/ Worker
    \/ RunPrep \/ OnDone \/ OnFailed \/ DismissDialog
Spec == Init /\ [][Next]_vars

\* The worker thread runs on, and the window's event loop delivers the
\* signals queued for it; the user owes no click.
Fairness == WF_vars(Worker) /\ WF_vars(OnDone \/ OnFailed)
FairSpec == Spec /\ Fairness

---------------------------------------------------------------------------
(* Claims about the coercion *)

StrategyParses(span) == span.found /\ Loads(span.span).ok

AnyStrategyParses(text) ==
    \/ Loads(text).ok
    \/ StrategyParses(LabeledFence(text))
    \/ StrategyParses(UnlabeledFence(text))
    \/ StrategyParses(TrailingBraces(text))

\* C1: the coercion fails only when none of the four strategies (whole
\* text, labeled fence, unlabeled fence, trailing brace span) yields a
\* span that parses: a span that does not parse sends it on to the next.
C1_FailsOnlyWhenAllFail ==
    (cpc = "done" /\ cres.st = "raised") => ~AnyStrategyParses(CollectedText(raw))

IsPlain(g) == g.n <= Len(PlainObjects)
LabeledAt == {i \in 1..Len(segs) : segs[i].kind = "labeled"}
TheLabeled == segs[CHOOSE i \in LabeledAt : TRUE]

\* A reply that does not parse as a whole and holds one labeled fence, an
\* unlabeled fence and a trailing bare object, three different objects.
FenceOrderCase ==
    /\ Cardinality(LabeledAt) = 1
    /\ IsPlain(TheLabeled)
    /\ segs[Len(segs)].kind = "bare"
    /\ IsPlain(segs[Len(segs)])
    /\ segs[Len(segs)].n # TheLabeled.n
    /\ \E j \in 1..Len(segs) :
          /\ segs[j].kind = "unlabeled"
          /\ IsPlain(segs[j])
          /\ segs[j].n # TheLabeled.n
          /\ segs[j].n # segs[Len(segs)].n
    /\ ~Loads(CollectedText(raw)).ok

\* C2: from a reply holding a labeled fence, an unlabeled fence and a
\* trailing bare object, three different objects in any order, the coercion
\* returns the object in the labeled fence.
C2_LabeledFenceWins ==
    (cpc = "done" /\ FenceOrderCase) => cres = Returned(PlainObjects[TheLabeled.n])

\* The unlabeled fence comes first in the reply and the labeled one's
\* object is returned.
C2_Witness ==
    /\ cpc = "done"
    /\ FenceOrderCase
    /\ \E j \in 1..Len(segs) :
          segs[j].kind = "unlabeled" /\ \A i \in LabeledAt : j < i
    /\ cres.st = "returned"

\* C3: a record serialized into a labeled fence between prose comes back
\* from the coercion equal to the original.
C3_RoundTrip ==
    (cpc = "done" /\ Len(segs) = 3 /\ segs[2].kind = "record")
        => cres = Returned(BriefRecords[segs[2].n])

---------------------------------------------------------------------------
(* Claims about the rendering *)

\* Values of the record's shape: a string, a list of strings, or None.
SchemaShaped(v) ==
    \/ v.k \in {"str", "null"}
    \/ v.k = "arr" /\ \A i \in 1..Len(v.items) : v.items[i].k = "str"

IsEmptyValue(v) == v \in {VStr(<<>>), VArr(<<>>), VLit("null")}

SectionTitles ==
    << <<"role_summary", "Role Summary">> >> \o Sections

\* C5: a section heading is in the document if and only if its key is in
\* the record with a non-empty value, for each of the eight keys.
C5_SectionIffNonEmpty ==
    (/\ rpc = "done"
     /\ rout.st = "returned"
     /\ \A i \in 1..Len(data.items) : SchemaShaped(data.items[i]))
        => \A i \in 1..Len(SectionTitles) :
              HasHeading(rout.doc, SectionTitles[i][2])
                  <=> (/\ HasKey(data, SectionTitles[i][1])
                       /\ ~IsEmptyValue(DictGet(data, SectionTitles[i][1])))

\* C6: render_markdown returns a document for every mapping, whatever the
\* values under its keys.
C6_RenderTotal ==
    (rpc = "done" /\ IsDict(data)) => rout.st = "returned"

---------------------------------------------------------------------------
(* Claims about the two programs *)

\* C4: what the coercion returns is a mapping: a reply that is a JSON
\* number, string or list yields no value, so none reaches the rendering
\* or the disk, in the CLI and in the worker.
C4_OnlyMappingsReturned ==
    /\ cli.response.st = "returned" => IsDict(cli.response.val)
    /\ \A w \in 1..MaxWorkers :
          workers[w].result.st = "returned" => IsDict(workers[w].result.val)

\* A text handed to build_prompt: trimmed, and of the minimum length.
Normalized(t) == t.some /\ t.lead = 0 /\ t.trail = 0 /\ t.body >= MinLength

\* C7: a prompt is built only from a JD and a CV that are trimmed and at
\* least MinLength long after trimming, in the CLI and in the worker.
C7_InputsNormalized ==
    /\ cli.prompt.built => Normalized(cli.prompt.jd) /\ Normalized(cli.prompt.cv)
    /\ \A w \in 1..MaxWorkers :
          workers[w].prompt.built =>
              Normalized(workers[w].prompt.jd) /\ Normalized(workers[w].prompt.cv)

\* The end-to-end scenario: a 500-character JD given as text, an
\* 800-character CV, a model that replies ReplyScenario.
ScenarioRun ==
    /\ mode = "cli"
    /\ ~cli.jd_url
    /\ cli.jd_text = T(0, 500, 0)
    /\ cli.cvfile = CvFile(TRUE, TRUE, T(0, 800, 0))
    /\ cli.stub = ApiReply(ReplyScenario)

IsHeadingLine(line) == Len(line) = 3 /\ line[1] = "##"
IsBulletLine(line) == Len(line) >= 2 /\ line[1] = "-"

\* C8: the scenario's run succeeds with the record of the two keys, the six
\* other keys reported missing, and a brief of the two sections, Role
\* Summary then Top Required Skills with two bullets.
C8_EndToEnd ==
    (ScenarioRun /\ cli.pc = "finished") =>
        /\ cli.outcome = "returned"
        /\ cli.response = Returned(ScenarioRecord)
        /\ cli.reported = RequiredKeys \ {"role_summary", "top_required_skills"}
        /\ SelectSeq(cli.markdown.doc, IsHeadingLine)
               = << Heading("Role Summary"), Heading("Top Required Skills") >>
        /\ SelectSeq(cli.markdown.doc, IsBulletLine)
               = << Bullet(Str1("Go")), Bullet(Str1("Kubernetes")) >>
        /\ cli.wroteJson /\ cli.wroteMd

\* C9: a run that is over has written both of its files or neither.
C9_PairAtomic ==
    /\ cli.pc = "finished" => (cli.wroteJson <=> cli.wroteMd)
    /\ \A w \in 1..MaxWorkers :
          workers[w].pc = "finished" => (workers[w].wroteJson <=> workers[w].wroteMd)

\* A worker whose run is not over, or whose signal is not yet handled.
Unanswered(wk) == InFlight(wk) \/ wk.answered < wk.emitted

OneWorkerAnswered ==
    /\ Cardinality({w \in 1..MaxWorkers : InFlight(workers[w])}) <= 1
    /\ \A w \in 1..MaxWorkers :
          /\ InFlight(workers[w]) => workers[w].emitted = 0 /\ gui.worker = w
          /\ workers[w].pc = "finished" => workers[w].emitted = 1
          /\ workers[w].answered <= workers[w].emitted
    /\ Len(sigq) = Cardinality({w \in 1..MaxWorkers :
                                   workers[w].answered < workers[w].emitted})
    /\ gui.btnEnabled <=> \A w \in 1..MaxWorkers : ~Unanswered(workers[w])
    /\ gui.status = "Running" <=> \E w \in 1..MaxWorkers : Unanswered(workers[w])

\* C10: at most one worker is in flight, and it is the window's; each
\* run emits one signal, handled once; Generate is disabled exactly from
\* the start of a worker to the handling of its signal; and the window
\* does not stay in the Running state.
C10_OneWorkerAnswered ==
    /\ []OneWorkerAnswered
    /\ (gui.status = "Running") ~> (gui.status # "Running")

\* A second worker runs, the first one's brief in the preview.
C10_Witness ==
    /\ gui.preview # <<>>
    /\ ~gui.btnEnabled
    /\ \E w \in 1..MaxWorkers : workers[w].pc = "called"

=============================================================================
